---- MODULE Spec2Model ----
(***************************************************************************)
(* Model of ApiService (src/unnamed/part_000, lines 246-827): the source   *)
(* health store, the adaptive concurrency plan, the concurrency limiter,   *)
(* the in-flight request deduplication of searchVideos and the aggregated  *)
(* search orchestrator with its tree of abort signals.                     *)
(*                                                                         *)
(* Atomicity.  JavaScript runs one event-loop task to completion, together *)
(* with every promise reaction (microtask) it queues, before the next task *)
(* starts.  One action of the model is therefore one event-loop task: a    *)
(* call of aggregatedSearch, the arrival of a response, the end of a body  *)
(* read, a timer, or the firing of an external abort signal, each followed *)
(* by all continuations of the async functions that it wakes up.           *)
(***************************************************************************)
EXTENDS Integers, Sequences, FiniteSets, TLC

\* ------------------------------------------------------------------------
\* Bounds of the model
\* ------------------------------------------------------------------------
\* number of tasks handed to a stand-alone limiter
MaxJobs == 4
\* largest limit a stand-alone limiter is created with
MaxLimit == 3

\* largest number of sources selected for one aggregated search
MaxSel == 3
\* largest configured topKFirstBatch
MaxTopK == 2
\* number of direct callers of searchVideos
MaxCallers == 2

\* largest successCount of a health record loaded at construction
MaxCount == 5
\* largest failureCount of a health record loaded at construction
MaxStoredFailures == 2

\* largest number of calls recorded for one source in a run of records
MaxRecords == 3

Jobs == 1..MaxJobs
Callers == 1..MaxCallers

Min(a, b) == IF a < b THEN a ELSE b
Max(a, b) == IF a > b THEN a ELSE b

\* ------------------------------------------------------------------------
\* Configuration imported from '@/config/api.config' (values of the model)
\* ------------------------------------------------------------------------
\* API_SITES: the built-in sources, each with its endpoint
API_SITES ==
    [a |-> [api |-> "s:/a", name |-> "A"],
     b |-> [api |-> "s:/b", name |-> "B"]]

\* API_CONFIG.search.path
SearchPath == "?q="

PROXY_URL == "/p?u="

\* AGGREGATED_SEARCH_CONFIG.baseConcurrency ?? 3, minConcurrency ?? 1,
\* maxConcurrency ?? 6, topKFirstBatch ?? 4
baseConcurrency == 3
minConcurrency == 1
maxConcurrency == 6
DefaultTopK == 4

\* ------------------------------------------------------------------------
\* Strings
\* ------------------------------------------------------------------------
\* encodeURIComponent on one character of the model's alphabet: letters,
\* digits and "_" are unreserved, the URL punctuation is percent-encoded
EncodeChar(c) ==
    CASE c = "/" -> "%2F"
      [] c = ":" -> "%3A"
      [] c = "?" -> "%3F"
      [] c = "=" -> "%3D"
      [] c = " " -> "%20"
      [] c = "%" -> "%25"
      [] OTHER -> c

RECURSIVE encodeURIComponent(_)
encodeURIComponent(str) ==
    IF Len(str) = 0 THEN ""
    ELSE EncodeChar(SubSeq(str, 1, 1)) \o encodeURIComponent(SubSeq(str, 2, Len(str)))

\* apiId.startsWith(prefix)
startsWith(str, prefix) ==
    Len(str) >= Len(prefix) /\ SubSeq(str, 1, Len(prefix)) = prefix

\* parseInt on a string of decimal digits; NaN (here -1) when the string does
\* not start with a digit
DigitValue(c) ==
    CASE c = "0" -> 0 [] c = "1" -> 1 [] c = "2" -> 2 [] c = "3" -> 3
      [] c = "4" -> 4 [] c = "5" -> 5 [] c = "6" -> 6 [] c = "7" -> 7
      [] c = "8" -> 8 [] c = "9" -> 9 [] OTHER -> -1

RECURSIVE ParseDigits(_, _)
ParseDigits(str, acc) ==
    IF Len(str) = 0 \/ DigitValue(SubSeq(str, 1, 1)) < 0 THEN acc
    ELSE ParseDigits(SubSeq(str, 2, Len(str)), 10 * acc + DigitValue(SubSeq(str, 1, 1)))

parseInt(str) ==
    IF Len(str) = 0 \/ DigitValue(SubSeq(str, 1, 1)) < 0 THEN -1
    ELSE ParseDigits(str, 0)

\* parseInt(apiId.replace('custom_', '')) for an apiId that starts with it
CustomIndex(apiId) == parseInt(SubSeq(apiId, Len("custom_") + 1, Len(apiId)))

\* the request key of searchVideos: PROXY_URL + encodeURIComponent(apiUrl)
RequestKey(query, source, customApi) ==
    LET apiUrl == IF customApi # ""
                  THEN customApi \o SearchPath \o encodeURIComponent(query)
                  ELSE API_SITES[source].api \o SearchPath \o encodeURIComponent(query)
    IN PROXY_URL \o encodeURIComponent(apiUrl)

\* mutant of ItemKey: the key is the vod_id alone
ItemKeyVodIdOnly(item) == item.vod_id

\* the key of the seen set: `${item.source_code}_${item.vod_id}`
ItemKey(item) == item.source_code \o "_" \o item.vod_id

\* ------------------------------------------------------------------------
\* Exact rationals [n, d] with d > 0, for the floating-point quantities
\* ------------------------------------------------------------------------
RECURSIVE Gcd(_, _)
Gcd(x, y) == IF y = 0 THEN x ELSE Gcd(y, x % y)

Rat(n, d) ==
    LET g == Gcd(IF n < 0 THEN -n ELSE n, d)
    IN IF g = 0 THEN [n |-> 0, d |-> 1] ELSE [n |-> n \div g, d |-> d \div g]

RatAdd(x, y) == Rat(x.n * y.d + y.n * x.d, x.d * y.d)
RatMul(x, y) == Rat(x.n * y.n, x.d * y.d)
\* a / b < c / d for a, c >= 0 and b, d > 0, by the continued-fraction
\* expansion of the two sides (no product that could leave the integers of
\* the checker)
RECURSIVE FracLess(_, _, _, _)
FracLess(a, b, c, d) ==
    IF a \div b # c \div d THEN a \div b < c \div d
    ELSE IF c % d = 0 THEN FALSE
    ELSE IF a % b = 0 THEN TRUE
    ELSE FracLess(d, c % d, b, a % b)

RatLess(x, y) ==
    IF x.n < 0 \/ y.n < 0 THEN x.n * y.d < y.n * x.d
    ELSE FracLess(x.n, x.d, y.n, y.d)
RatMax(x, y) == IF RatLess(x, y) THEN y ELSE x
\* Math.round: the nearest integer, halves towards +infinity
RatRound(x) == (2 * x.n + x.d) \div (2 * x.d)

\* ------------------------------------------------------------------------
\* Health store
\* ------------------------------------------------------------------------
\* sourceHealth is a function from the source codes that have a record to
\* [avgLatencyMs, successCount, failureCount, lastLatencyMs]; lastUpdatedAt
\* (Date.now()) is read by nothing and is left out.

\* mutant of updateHealth: a failure is counted as a success
updateHealthAlwaysOk(health, sourceCode, ok, latencyMs) ==
    LET rec == IF sourceCode \in DOMAIN health THEN health[sourceCode]
               ELSE [avgLatencyMs |-> Rat(latencyMs, 1), successCount |-> 0,
                     failureCount |-> 0, lastLatencyMs |-> latencyMs]
        upd == [rec EXCEPT !.lastLatencyMs = latencyMs,
                           !.successCount = @ + 1,
                           !.avgLatencyMs = RatAdd(RatMul(@, Rat(7, 10)),
                                                   Rat(3 * latencyMs, 10))]
    IN [k \in DOMAIN health \cup {sourceCode} |->
            IF k = sourceCode THEN upd ELSE health[k]]

updateHealth(health, sourceCode, ok, latencyMs) ==
    LET rec == IF sourceCode \in DOMAIN health THEN health[sourceCode]
               ELSE [avgLatencyMs |-> Rat(latencyMs, 1), successCount |-> 0,
                     failureCount |-> 0, lastLatencyMs |-> latencyMs]
        upd == IF ok
               THEN [rec EXCEPT !.lastLatencyMs = latencyMs,
                                !.successCount = @ + 1,
                                !.avgLatencyMs = RatAdd(RatMul(@, Rat(7, 10)),
                                                        Rat(3 * latencyMs, 10))]
               ELSE [rec EXCEPT !.lastLatencyMs = latencyMs,
                                !.failureCount = @ + 1,
                                !.avgLatencyMs = RatAdd(RatMul(@, Rat(8, 10)),
                                                        Rat(2 * latencyMs, 10))]
    IN [k \in DOMAIN health \cup {sourceCode} |->
            IF k = sourceCode THEN upd ELSE health[k]]

\* mutant of getSourceScore: the latency term is 1 / avgLatencyMs, without
\* the floor of 100 ms
getSourceScoreNoClamp(health, sourceCode) ==
    IF sourceCode \notin DOMAIN health THEN Rat(0, 1)
    ELSE LET rec == health[sourceCode]
             total == rec.successCount + rec.failureCount
             successRate == IF total > 0 THEN Rat(rec.successCount, total)
                            ELSE Rat(1, 2)
             latencyScore == Rat(rec.avgLatencyMs.d, rec.avgLatencyMs.n)
         IN RatAdd(RatMul(successRate, Rat(7, 10)), RatMul(latencyScore, Rat(3, 10)))

getSourceScore(health, sourceCode) ==
    IF sourceCode \notin DOMAIN health THEN Rat(0, 1)
    ELSE LET rec == health[sourceCode]
             total == rec.successCount + rec.failureCount
             successRate == IF total > 0 THEN Rat(rec.successCount, total)
                            ELSE Rat(1, 2)
             clamped == RatMax(Rat(100, 1), rec.avgLatencyMs)
             latencyScore == Rat(clamped.d, clamped.n)
         IN RatAdd(RatMul(successRate, Rat(7, 10)), RatMul(latencyScore, Rat(3, 10)))

\* navigator.connection.effectiveType -> factor
getNetworkFactor(effectiveType) ==
    CASE effectiveType \in {"slow-2g", "2g"} -> Rat(4, 10)
      [] effectiveType = "3g" -> Rat(7, 10)
      [] effectiveType = "4g" -> Rat(1, 1)
      [] OTHER -> Rat(1, 1)

RECURSIVE SumOver(_, _, _)
\* sum of f(health[id]) over the ids of the sequence that have a record
SumOver(health, ids, failuresOnly) ==
    IF Len(ids) = 0 THEN 0
    ELSE (IF Head(ids) \in DOMAIN health
          THEN (IF failuresOnly THEN 0 ELSE health[Head(ids)].successCount)
               + health[Head(ids)].failureCount
          ELSE 0) + SumOver(health, Tail(ids), failuresOnly)

\* Math.round(base * netFactor * healthFactor) in double arithmetic.  The
\* double product rounds as the exact one except at an exact tie k + 1/2:
\* 3 * 0.7 is the double 2.0999999999999996, so that with netFactor 0.7
\* the product at the tie (healthFactor 5/7) is 1.4999999999999998 and
\* rounds down; with netFactor 1 the product at the tie 2.5 is exact.
roundProduct(netFactor, healthFactor) ==
    LET exact == RatMul(RatMul(Rat(baseConcurrency, 1), netFactor), healthFactor)
    IN IF exact.d = 2 /\ netFactor = Rat(7, 10) THEN (exact.n - 1) \div 2
       ELSE RatRound(exact)

\* mutant of getAdaptiveConcurrency: healthFactor has no floor of 0.6
getAdaptiveConcurrencyNoHealthFloor(health, selectedAPIs, effectiveType) ==
    LET netFactor == getNetworkFactor(effectiveType)
        total == SumOver(health, selectedAPIs, FALSE)
        failures == SumOver(health, selectedAPIs, TRUE)
        failureRatio == IF total > 0 THEN Rat(failures, total) ELSE Rat(0, 1)
        healthFactor == RatAdd(Rat(1, 1), Rat(-failureRatio.n, failureRatio.d))
        c == roundProduct(netFactor, healthFactor)
    IN Min(maxConcurrency, Max(minConcurrency, c))

getAdaptiveConcurrency(health, selectedAPIs, effectiveType) ==
    LET netFactor == getNetworkFactor(effectiveType)
        total == SumOver(health, selectedAPIs, FALSE)
        failures == SumOver(health, selectedAPIs, TRUE)
        failureRatio == IF total > 0 THEN Rat(failures, total) ELSE Rat(0, 1)
        healthFactor == RatMax(Rat(6, 10),
                               RatAdd(Rat(1, 1), Rat(-failureRatio.n, failureRatio.d)))
        c == roundProduct(netFactor, healthFactor)
    IN Min(maxConcurrency, Max(minConcurrency, c))

\* mutant of InsertByScore: an element goes before the elements of equal
\* score (the sort is not stable)
RECURSIVE InsertByScoreUnstable(_, _, _)
InsertByScoreUnstable(health, sorted, id) ==
    IF Len(sorted) = 0 THEN <<id>>
    ELSE IF ~RatLess(getSourceScore(health, id), getSourceScore(health, Head(sorted)))
         THEN <<id>> \o sorted
         ELSE <<Head(sorted)>> \o InsertByScoreUnstable(health, Tail(sorted), id)

\* [...selectedAPIs].sort((a, b) => score(b) - score(a)): a stable sort,
\* descending by score (insertion of each element after the last element
\* whose score is not smaller)
RECURSIVE InsertByScore(_, _, _)
InsertByScore(health, sorted, id) ==
    IF Len(sorted) = 0 THEN <<id>>
    ELSE IF RatLess(getSourceScore(health, Head(sorted)), getSourceScore(health, id))
         THEN <<id>> \o sorted
         ELSE <<Head(sorted)>> \o InsertByScore(health, Tail(sorted), id)

RECURSIVE SortByScore(_, _, _)
SortByScore(health, ids, acc) ==
    IF Len(ids) = 0 THEN acc
    ELSE SortByScore(health, Tail(ids), InsertByScore(health, acc, Head(ids)))

orderedAPIs(health, selectedAPIs) == SortByScore(health, selectedAPIs, <<>>)

\* ------------------------------------------------------------------------
\* Concurrency limiter (createConcurrencyLimiter)
\* ------------------------------------------------------------------------
\* A limiter is [limit, running, queue, started]: `running` and `queue` are
\* the closure variables of the source; `started` collects, in order, the
\* thunks that calls of tryRun have taken off the queue and invoked.

NewLimiter(limit) ==
    [limit |-> limit, running |-> 0, queue |-> <<>>, started |-> <<>>]

\* mutant of tryRun: admits while running <= limit (off by one)
RECURSIVE tryRunOffByOne(_)
tryRunOffByOne(l) ==
    IF l.running <= l.limit /\ Len(l.queue) > 0
    THEN tryRunOffByOne([l EXCEPT !.running = @ + 1,
                                  !.queue = Tail(@),
                                  !.started = Append(@, Head(l.queue))])
    ELSE l

\* mutant of tryRun: takes the newest entry of the queue (pop instead of
\* shift)
RECURSIVE tryRunNewestFirst(_)
tryRunNewestFirst(l) ==
    IF l.running < l.limit /\ Len(l.queue) > 0
    THEN tryRunNewestFirst([l EXCEPT !.running = @ + 1,
                                     !.queue = SubSeq(@, 1, Len(@) - 1),
                                     !.started = Append(@, l.queue[Len(l.queue)])])
    ELSE l

\* while (running < limit && queue.length > 0) { next = queue.shift();
\*   running++; next() }
RECURSIVE tryRun(_)
tryRun(l) ==
    IF l.running < l.limit /\ Len(l.queue) > 0
    THEN tryRun([l EXCEPT !.running = @ + 1,
                          !.queue = Tail(@),
                          !.started = Append(@, Head(l.queue))])
    ELSE l

\* the returned function: queue.push(run); tryRun()
limiterRun(l, thunk) == tryRun([l EXCEPT !.queue = Append(@, thunk)])

\* mutant of limiterFinally: the slot is given back but the queue is not
\* looked at again
limiterFinallyNoTryRun(l) == [l EXCEPT !.running = @ - 1]

\* .finally(() => { running--; tryRun() })
limiterFinally(l) == tryRun([l EXCEPT !.running = @ - 1])

\* ------------------------------------------------------------------------
\* State
\* ------------------------------------------------------------------------
VARIABLES
    config,            \* AGGREGATED_SEARCH_CONFIG: [topKFirstBatch, earlyAbortAfterTopK]
    sourceHealth,      \* this.sourceHealth
    inflightRequests,  \* this.inflightRequests: request key -> id of the exec() call
    upstream,          \* the exec() calls that have not settled (set of records)
    fetchCount,        \* number of requests handed to the network so far
    execCount,         \* number of exec() invocations so far
    sess,              \* the calls of aggregatedSearch, by session
    caller,            \* the direct calls of searchVideos, by caller
    gate,              \* a stand-alone limiter
    job                \* its tasks: "new" | "queued" | "running" | "resolved" | "rejected"

vars == <<config, sourceHealth, inflightRequests, upstream, fetchCount, execCount,
          sess, caller, gate, job>>
svars == <<config, sourceHealth, inflightRequests, upstream, fetchCount, execCount,
           sess, caller>>

Sessions == {1, 2}

\* A caller of searchVideos is <<s, i>>: task i of session s, or, with s = 0,
\* the direct caller i.
NoReq == <<>>
\* no result of searchVideos yet
NoObs == [code |-> 0, list |-> <<>>, msg |-> ""]

\* the world the operators below transform: the service's fields and the
\* sessions and callers whose continuations run on it
World ==
    [health |-> sourceHealth, inflight |-> inflightRequests, upstream |-> upstream,
     fetches |-> fetchCount, execs |-> execCount, sess |-> sess, caller |-> caller]

IdleSession ==
    [status |-> "idle", signal |-> "none", aborted |-> FALSE, query |-> "",
     selectedAPIs |-> <<>>, effectiveType |-> "",
     customAPIs |-> <<>>, seen |-> {}, limiter |-> NewLimiter(0), tasks |-> <<>>,
     controllers |-> <<>>, reachedTopK |-> 0, delivered |-> <<>>]

NewTask(apiId) ==
    [apiId |-> apiId, st |-> "queued", released |-> FALSE, ctrl |-> "none",
     req |-> NoReq, obs |-> NoObs]

IdleCaller == [st |-> "idle", signal |-> "none", req |-> NoReq, obs |-> NoObs]

\* Map.delete / Map.set on a function
MapDelete(f, k) == [x \in DOMAIN f \ {k} |-> f[x]]
MapSet(f, k, v) == [x \in DOMAIN f \cup {k} |-> IF x = k THEN v ELSE f[x]]

\* whether the abort signal handed to searchVideos by caller `id` has fired
SignalAborted(w, id) ==
    IF id[1] = 0 THEN w.caller[id[2]].signal = "aborted"
    ELSE w.sess[id[1]].tasks[id[2]].ctrl = "aborted"

\* whether caller `id` handed a signal to searchVideos at all
SignalGiven(w, id) ==
    IF id[1] = 0 THEN w.caller[id[2]].signal # "none" ELSE TRUE

\* ------------------------------------------------------------------------
\* aggregatedSearch: the rest of a per-source task after searchSingleSource
\* ------------------------------------------------------------------------
\* mutant of newUniqueFilter: seen.add(key) is left out
RECURSIVE newUniqueFilterNoAdd(_, _, _)
newUniqueFilterNoAdd(results, seen, kept) ==
    IF Len(results) = 0 THEN [kept |-> kept, seen |-> seen]
    ELSE LET key == ItemKey(Head(results))
         IN IF key \notin seen
            THEN newUniqueFilterNoAdd(Tail(results), seen, Append(kept, Head(results)))
            ELSE newUniqueFilterNoAdd(Tail(results), seen, kept)

\* results.filter(item => { key = ...; if (!seen.has(key)) { seen.add(key);
\*   return true } return false }), as [kept, seen]
RECURSIVE newUniqueFilter(_, _, _)
newUniqueFilter(results, seen, kept) ==
    IF Len(results) = 0 THEN [kept |-> kept, seen |-> seen]
    ELSE LET key == ItemKey(Head(results))
         IN IF key \notin seen
            THEN newUniqueFilter(Tail(results), seen \cup {key}, Append(kept, Head(results)))
            ELSE newUniqueFilter(Tail(results), seen, kept)

\* mutant of abortRest: aborting the controllers also marks the session as
\* aborted
abortRestSetsAborted(ss) ==
    [ss EXCEPT !.aborted = TRUE,
               !.tasks =
        [i \in DOMAIN ss.tasks |->
            IF \E id \in DOMAIN ss.controllers : ss.controllers[id] = i
            THEN [ss.tasks[i] EXCEPT !.ctrl = "aborted"]
            ELSE ss.tasks[i]]]

\* abortRest: for (const [, c] of perSourceControllers) c.abort()
abortRest(ss) ==
    [ss EXCEPT !.tasks =
        [i \in DOMAIN ss.tasks |->
            IF \E id \in DOMAIN ss.controllers : ss.controllers[id] = i
            THEN [ss.tasks[i] EXCEPT !.ctrl = "aborted"]
            ELSE ss.tasks[i]]]

\* the top-K check after onNewResults
topKReached(ss, cfg) ==
    cfg.earlyAbortAfterTopK /\ ss.reachedTopK >= Max(1, cfg.topKFirstBatch)
    /\ ~ss.aborted

\* mutant of ContinueTask: the aborted flag is not looked at after the
\* search of the source has returned
ContinueTaskNoAbortedCheck(w, cfg, s, i, results) ==
    LET ss0 == w.sess[s]
        ss1 == [ss0 EXCEPT !.controllers = MapDelete(@, ss0.tasks[i].apiId),
                           !.tasks[i].st = "settled"]
        f == newUniqueFilter(results, ss1.seen, <<>>)
        ss2 == [ss1 EXCEPT !.seen = f.seen]
        ss3 == [ss2 EXCEPT !.reachedTopK = @ + 1,
                           !.delivered = Append(@, f.kept)]
        ss4 == IF topKReached(ss3, cfg) THEN abortRest(ss3) ELSE ss3
    IN [w EXCEPT !.sess[s] = IF Len(f.kept) > 0 THEN ss4 ELSE ss2]

\* lines 764-785: finally { perSourceControllers.delete(apiId) }; if (aborted)
\* return; filter; callback; top-K check.  The catch clause of the task is
\* dead code: searchSingleSource catches everything and returns [].
ContinueTask(w, cfg, s, i, results) ==
    LET ss0 == w.sess[s]
        ss1 == [ss0 EXCEPT !.controllers = MapDelete(@, ss0.tasks[i].apiId),
                           !.tasks[i].st = "settled"]
        f == newUniqueFilter(results, ss1.seen, <<>>)
        ss2 == [ss1 EXCEPT !.seen = f.seen]
        ss3 == [ss2 EXCEPT !.reachedTopK = @ + 1,
                           !.delivered = Append(@, f.kept)]
        ss4 == IF topKReached(ss3, cfg) THEN abortRest(ss3) ELSE ss3
    IN [w EXCEPT !.sess[s] =
            IF ss0.aborted THEN ss1
            ELSE IF Len(f.kept) > 0 THEN ss4
            ELSE ss2]

\* searchSingleSource: the list of a code-200 result, [] otherwise
\* (source_name is display only and is not modelled)
searchSingleSourceResult(obs) ==
    IF obs.code = 200 THEN obs.list ELSE <<>>

\* what the caller `id` of searchVideos does with the result `obs`
Resume(w, cfg, id, obs) ==
    IF id[1] = 0
    THEN [w EXCEPT !.caller[id[2]].st = "done", !.caller[id[2]].obs = obs]
    ELSE ContinueTask([w EXCEPT !.sess[id[1]].tasks[id[2]].obs = obs],
                      cfg, id[1], id[2], searchSingleSourceResult(obs))

RECURSIVE ResumeAll(_, _, _, _)
ResumeAll(w, cfg, ids, obs) ==
    IF Len(ids) = 0 THEN w
    ELSE ResumeAll(Resume(w, cfg, Head(ids), obs), cfg, Tail(ids), obs)

\* ------------------------------------------------------------------------
\* searchVideos and its exec() closure
\* ------------------------------------------------------------------------
\* data.list.forEach(item => { item.source_code = source; if (source ===
\* 'custom') item.api_url = customApi })
\* mutant of TagItems: the items of a custom endpoint carry the url of the
\* endpoint as their source code
RECURSIVE TagItemsByEndpoint(_, _, _)
TagItemsByEndpoint(vodIds, source, customApi) ==
    IF Len(vodIds) = 0 THEN <<>>
    ELSE <<[source_code |-> IF source = "custom" THEN customApi ELSE source,
            vod_id |-> Head(vodIds),
            api_url |-> IF source = "custom" THEN customApi ELSE ""]>>
         \o TagItemsByEndpoint(Tail(vodIds), source, customApi)

RECURSIVE TagItems(_, _, _)
TagItems(vodIds, source, customApi) ==
    IF Len(vodIds) = 0 THEN <<>>
    ELSE <<[source_code |-> source, vod_id |-> Head(vodIds),
            api_url |-> IF source = "custom" THEN customApi ELSE ""]>>
         \o TagItems(Tail(vodIds), source, customApi)

\* the result of the catch clause of searchVideos (lines 475-479): code 400,
\* the message of the error, an empty list
Failed400(msg) == [code |-> 400, list |-> <<>>, msg |-> msg]

\* the message of an error thrown by exec(): a failed fetch, a non-2xx
\* status, an unreadable or invalid body (its wording is not told apart)
RequestFailed == "request failed"

\* mutant of SettleRequest: the failure of the call is passed on to the
\* results of the sessions that wait for it
SettleRequestFailFast(w, cfg, u, ok, vodIds, latencyMs) ==
    LET obs == IF ok THEN [code |-> 200, list |-> TagItems(vodIds, u.source, u.customApi),
                           msg |-> ""]
               ELSE Failed400(RequestFailed)
        w1 == [w EXCEPT !.health = updateHealth(@, u.source, ok, latencyMs),
                        !.inflight = MapDelete(@, u.key),
                        !.upstream = @ \ {u}]
        w2 == ResumeAll(w1, cfg, u.waiters, obs)
    IN IF ok THEN w2
       ELSE [w2 EXCEPT !.sess = [s \in DOMAIN w2.sess |->
                IF \E n \in DOMAIN u.waiters : u.waiters[n][1] = s
                THEN [w2.sess[s] EXCEPT !.status = "rejected"]
                ELSE w2.sess[s]]]

\* mutant of SettleRequest: the request key is deleted after a success only
\* (no finally clause)
SettleRequestKeepsFailedEntry(w, cfg, u, ok, vodIds, latencyMs) ==
    LET obs == IF ok THEN [code |-> 200, list |-> TagItems(vodIds, u.source, u.customApi),
                           msg |-> ""]
               ELSE Failed400(RequestFailed)
        w1 == [w EXCEPT !.health = updateHealth(@, u.source, ok, latencyMs),
                        !.inflight = IF ok THEN MapDelete(@, u.key) ELSE @,
                        !.upstream = @ \ {u}]
    IN ResumeAll(w1, cfg, u.waiters, obs)

\* exec() settles (lines 449-463): updateHealth, the finally clause deletes
\* the request key, and every caller awaiting the shared promise resumes with
\* the same result, in the order in which they started to wait
SettleRequest(w, cfg, u, ok, vodIds, latencyMs) ==
    LET obs == IF ok THEN [code |-> 200, list |-> TagItems(vodIds, u.source, u.customApi),
                           msg |-> ""]
               ELSE Failed400(RequestFailed)
        w1 == [w EXCEPT !.health = updateHealth(@, u.source, ok, latencyMs),
                        !.inflight = MapDelete(@, u.key),
                        !.upstream = @ \ {u}]
    IN ResumeAll(w1, cfg, u.waiters, obs)

\* mutant of HasInflight: the has() test always fails, every call runs exec()
HasInflightNever(inflight, key) == FALSE

\* this.inflightRequests.has(requestKey)
HasInflight(inflight, key) == key \in DOMAIN inflight

\* caller `id` starts to wait for the call `reqId`
Await(w, id, reqId) ==
    IF id[1] = 0
    THEN [w EXCEPT !.caller[id[2]].st = "waiting", !.caller[id[2]].req = reqId]
    ELSE [w EXCEPT !.sess[id[1]].tasks[id[2]].st = "waiting",
                   !.sess[id[1]].tasks[id[2]].req = reqId]

\* mutant of validationError: the query is not checked
validationErrorNoQueryCheck(query, source, customApi) ==
    IF source = "custom" /\ customApi = "" THEN "custom api needs an api url"
    ELSE IF source \notin DOMAIN API_SITES /\ source # "custom" THEN "invalid api source"
    ELSE ""

\* lines 399-410: the message of the error that the validation throws, ""
\* when the arguments are valid (the messages are rendered in English)
validationError(query, source, customApi) ==
    IF query = "" THEN "missing search parameter"
    ELSE IF source = "custom" /\ customApi = "" THEN "custom api needs an api url"
    ELSE IF source \notin DOMAIN API_SITES /\ source # "custom" THEN "invalid api source"
    ELSE ""

\* searchVideos up to its await (lines 398-470).  A validation error is
\* caught at line 473 and returned as code 400.  exec() runs up to the await
\* of fetch; a fetch whose signal is already aborted is rejected without a
\* request (it settles in Drain, within the same task of the event loop).
searchVideos(w, cfg, id, query, source, customApi) ==
    IF validationError(query, source, customApi) # ""
    THEN Resume(w, cfg, id, Failed400(validationError(query, source, customApi)))
    ELSE LET key == RequestKey(query, source, customApi)
         IN IF ~HasInflight(w.inflight, key)
            THEN LET u == [id |-> id, key |-> key, source |-> source,
                           customApi |-> customApi, phase |-> "fetching",
                           listening |-> SignalGiven(w, id),
                           waiters |-> <<id>>]
                 IN Await([w EXCEPT !.upstream = @ \cup {u},
                                    !.inflight = MapSet(@, key, id),
                                    !.execs = @ + 1,
                                    !.fetches = IF SignalAborted(w, id) THEN @ ELSE @ + 1],
                          id, id)
            ELSE LET u == CHOOSE x \in w.upstream : x.id = w.inflight[key]
                 IN Await([w EXCEPT !.upstream =
                               (@ \ {u}) \cup {[u EXCEPT !.waiters = Append(@, id)]}],
                          id, u.id)

\* ------------------------------------------------------------------------
\* aggregatedSearch: a per-source task from its start to its first await
\* ------------------------------------------------------------------------
\* lines 730-760
StartTask(w, cfg, s, i) ==
    LET ss == w.sess[s]
        apiId == ss.tasks[i].apiId
        w1 == [w EXCEPT !.sess[s].tasks[i].ctrl =
                            IF ss.signal = "aborted" THEN "aborted" ELSE "live",
                        !.sess[s].controllers = MapSet(@, apiId, i)]
    IN IF ss.aborted
       THEN [w EXCEPT !.sess[s].tasks[i].st = "settled"]
       ELSE IF startsWith(apiId, "custom_")
            THEN LET idx == CustomIndex(apiId)
                 IN IF idx >= 0 /\ idx < Len(ss.customAPIs)
                    THEN searchVideos(w1, cfg, <<s, i>>, ss.query, "custom",
                                      ss.customAPIs[idx + 1].url)
                    ELSE ContinueTask(w1, cfg, s, i, <<>>)
            ELSE IF apiId \in DOMAIN API_SITES
                 THEN searchVideos(w1, cfg, <<s, i>>, ss.query, apiId, "")
                 ELSE ContinueTask(w1, cfg, s, i, <<>>)

RECURSIVE StartTasks(_, _, _, _)
StartTasks(w, cfg, s, started) ==
    IF Len(started) = 0 THEN w
    ELSE StartTasks(StartTask(w, cfg, s, Head(started)), cfg, s, Tail(started))

\* limiter(task): queue.push(run); tryRun(), then the tasks it started
SubmitTask(w, cfg, s, i) ==
    LET l == limiterRun(w.sess[s].limiter, i)
    IN StartTasks([w EXCEPT !.sess[s].limiter = [l EXCEPT !.started = <<>>]],
                  cfg, s, l.started)

RECURSIVE SubmitTasks(_, _, _, _)
SubmitTasks(w, cfg, s, is) ==
    IF Len(is) = 0 THEN w
    ELSE SubmitTasks(SubmitTask(w, cfg, s, Head(is)), cfg, s, Tail(is))

\* the finally handler of the limiter for the settled task i of session s
ReleaseTask(w, cfg, s, i) ==
    LET l == limiterFinally(w.sess[s].limiter)
    IN StartTasks([w EXCEPT !.sess[s].limiter = [l EXCEPT !.started = <<>>],
                            !.sess[s].tasks[i].released = TRUE],
                  cfg, s, l.started)

\* ------------------------------------------------------------------------
\* Running the queued promise reactions to completion
\* ------------------------------------------------------------------------
\* mutant of AbortedFetches: the abort of the signal does not reach the fetch
AbortedFetchesNone(w) == {}

\* the fetches whose controller was aborted while they wait for the response
\* (fetchWithTimeout: onExternalAbort is registered until fetch settles)
AbortedFetches(w) ==
    {u \in w.upstream : u.phase = "fetching" /\ u.listening /\ SignalAborted(w, u.id)}

\* the tasks that have settled and whose limiter slot is not yet given back
Unreleased(w) ==
    {id \in UNION {{<<s, i>> : i \in DOMAIN w.sess[s].tasks} : s \in Sessions} :
        /\ w.sess[id[1]].tasks[id[2]].st = "settled"
        /\ ~w.sess[id[1]].tasks[id[2]].released}

IdLess(x, y) == x[1] < y[1] \/ (x[1] = y[1] /\ x[2] < y[2])

AllSettled(ss) == \A i \in DOMAIN ss.tasks : ss.tasks[i].st = "settled"

\* mutant of JoinAll: the result resolves as soon as one task has settled
JoinAny(w) ==
    [w EXCEPT !.sess = [s \in Sessions |->
        IF w.sess[s].status = "pending"
           /\ \E i \in DOMAIN w.sess[s].tasks : w.sess[s].tasks[i].st = "settled"
        THEN [w.sess[s] EXCEPT !.status = "resolved"]
        ELSE w.sess[s]]]

\* Promise.all(tasks), raced against the abort promise: a pending result
\* resolves when every task has settled
JoinAll(w) ==
    [w EXCEPT !.sess = [s \in Sessions |->
        IF w.sess[s].status = "pending" /\ AllSettled(w.sess[s])
        THEN [w.sess[s] EXCEPT !.status = "resolved"]
        ELSE w.sess[s]]]

\* `now` stands for performance.now() - start of the fetches that end in
\* this task of the event loop
RECURSIVE Drain(_, _, _)
Drain(w, cfg, now) ==
    IF AbortedFetches(w) # {}
    THEN LET u == CHOOSE x \in AbortedFetches(w) :
                      \A y \in AbortedFetches(w) : x = y \/ IdLess(x.id, y.id)
         IN Drain(SettleRequest(w, cfg, u, FALSE, <<>>, now), cfg, now)
    ELSE IF Unreleased(w) # {}
         THEN LET id == CHOOSE x \in Unreleased(w) :
                            \A y \in Unreleased(w) : x = y \/ IdLess(x, y)
              IN Drain(ReleaseTask(w, cfg, id[1], id[2]), cfg, now)
         ELSE JoinAll(w)

\* ------------------------------------------------------------------------
\* Inputs
\* ------------------------------------------------------------------------
Queries == {"q"}
\* the apiIds a caller may select, in the order in which they are listed
ApiOrder == <<"a", "b", "custom_0", "custom_1">>
\* the customAPIs argument: two endpoints, or the same endpoint entered twice
CustomLists ==
    {<<[url |-> "s:/x", name |-> "X"], [url |-> "s:/y", name |-> "Y"]>>,
     <<[url |-> "s:/x", name |-> "X"], [url |-> "s:/x", name |-> "X2"]>>}
SignalArgs == {"none", "live", "aborted"}
EffectiveTypes == {"2g", "3g", "4g"}
\* the vod_id's of the list of a response body
VodLists == {<<>>, <<"1">>, <<"1", "1", "2">>}
\* elapsed milliseconds measured by exec() (performance.now() - start)
Elapsed == {400}
\* the configurations: early abort after 1..MaxTopK sources, or the defaults
\* (topKFirstBatch ?? 4, earlyAbortAfterTopK undefined)
Configs ==
    {[topKFirstBatch |-> k, earlyAbortAfterTopK |-> TRUE] : k \in 1..MaxTopK}
    \cup {[topKFirstBatch |-> DefaultTopK, earlyAbortAfterTopK |-> FALSE]}

\* the subsequence of `order` made of the elements of S
RECURSIVE Restrict(_, _)
Restrict(order, S) ==
    IF Len(order) = 0 THEN <<>>
    ELSE (IF Head(order) \in S THEN <<Head(order)>> ELSE <<>>) \o Restrict(Tail(order), S)

Range(f) == {f[x] : x \in DOMAIN f}

\* the selections: at most MaxSel distinct apiIds
Selections ==
    {Restrict(ApiOrder, S) : S \in {T \in SUBSET Range(ApiOrder) : Cardinality(T) <= MaxSel}}

\* the customAPIs passed with a selection: none when no custom id is selected
CustomListsFor(sel) ==
    IF \E i \in DOMAIN sel : startsWith(sel[i], "custom_") THEN CustomLists ELSE {<<>>}

\* ------------------------------------------------------------------------
\* Actions
\* ------------------------------------------------------------------------
Install(w) ==
    /\ sourceHealth' = w.health
    /\ inflightRequests' = w.inflight
    /\ upstream' = w.upstream
    /\ fetchCount' = w.fetches
    /\ execCount' = w.execs
    /\ sess' = w.sess
    /\ caller' = w.caller
    /\ UNCHANGED <<config, gate, job>>

\* the service after its construction, nothing called yet
ServiceInit ==
    /\ sourceHealth = <<>>
    /\ inflightRequests = <<>>
    /\ upstream = {}
    /\ fetchCount = 0
    /\ execCount = 0
    /\ sess = [s \in Sessions |-> IdleSession]
    /\ caller = [c \in Callers |-> IdleCaller]

Init ==
    /\ config \in Configs
    /\ ServiceInit
    /\ gate = NewLimiter(1)
    /\ job = [j \in Jobs |-> "new"]

\* mutant of preAborted: the aborted flag of the signal is not looked at
preAbortedIgnored(signal) == FALSE

\* if (signal) { if (signal.aborted) return Promise.reject(...) }
preAborted(signal) == signal = "aborted"

\* mutant of raceOnAbort: the abort overrides a result that has resolved
raceOnAbortOverrides(status) == "rejected"

\* Promise.race([allPromise, abortPromise]) when abortPromise rejects: the
\* result is rejected unless it has settled before
raceOnAbort(status) == IF status = "pending" THEN "rejected" ELSE status

\* mutant of emptySelection: the signal is looked at before the selection
emptySelectionAfterSignal(selectedAPIs, signal) ==
    Len(selectedAPIs) = 0 /\ signal # "aborted"

\* if (selectedAPIs.length === 0) return Promise.resolve([]): the first
\* statement of aggregatedSearch, the signal is not looked at
emptySelection(selectedAPIs, signal) == Len(selectedAPIs) = 0

\* aggregatedSearch(query, selectedAPIs, customAPIs, onNewResults, signal);
\* effectiveType is navigator.connection.effectiveType at the time of the call
AggregatedSearch(s, query, selectedAPIs, customAPIs, signal, effectiveType) ==
    /\ sess[s].status = "idle"
    /\ IF emptySelection(selectedAPIs, signal)
       THEN Install([World EXCEPT !.sess[s].status = "resolved"])
       ELSE IF preAborted(signal)
       THEN Install([World EXCEPT !.sess[s].status = "rejected",
                                  !.sess[s].signal = "aborted"])
       ELSE LET ordered == orderedAPIs(sourceHealth, selectedAPIs)
                limit == getAdaptiveConcurrency(sourceHealth, selectedAPIs,
                                                effectiveType)
                ss == [IdleSession EXCEPT
                          !.status = "pending", !.signal = signal, !.query = query,
                          !.selectedAPIs = selectedAPIs,
                          !.effectiveType = effectiveType,
                          !.customAPIs = customAPIs,
                          !.limiter = NewLimiter(limit),
                          !.tasks = [i \in 1..Len(ordered) |-> NewTask(ordered[i])]]
                w == SubmitTasks([World EXCEPT !.sess[s] = ss], config, s,
                                 [i \in 1..Len(ordered) |-> i])
            IN Install(Drain(w, config, 0))

\* the external signal of session s fires.  Its listeners run in the order
\* of registration: aborted = true (line 700), abortRest (725), the
\* listener of every started task (737), the rejection of the result (791).
ExternalAbort(s, now) ==
    /\ sess[s].signal = "live"
    /\ LET ss0 == sess[s]
           ss1 == abortRest([ss0 EXCEPT !.signal = "aborted", !.aborted = TRUE])
           ss2 == [ss1 EXCEPT
                      !.tasks = [i \in DOMAIN ss1.tasks |->
                                    IF ss1.tasks[i].ctrl = "live"
                                    THEN [ss1.tasks[i] EXCEPT !.ctrl = "aborted"]
                                    ELSE ss1.tasks[i]],
                      !.status = raceOnAbort(@)]
       IN Install(Drain([World EXCEPT !.sess[s] = ss2], config, now))

\* fetch resolves with a response: clearTimeout, removeEventListener; a
\* non-2xx status throws, otherwise exec awaits response.json()
FetchResponds(u, ok, now) ==
    /\ u \in upstream /\ u.phase = "fetching"
    /\ IF ok
       THEN Install([World EXCEPT !.upstream =
                (@ \ {u}) \cup {[u EXCEPT !.phase = "reading", !.listening = FALSE]}])
       ELSE Install(Drain(SettleRequest(World, config, u, FALSE, <<>>, now), config, now))

\* fetch rejects with a network error
FetchFails(u, now) ==
    /\ u \in upstream /\ u.phase = "fetching"
    /\ Install(Drain(SettleRequest(World, config, u, FALSE, <<>>, now), config, now))

\* the timer of fetchWithTimeout fires: controller.abort(), fetch rejects
FetchTimeout(u, now) ==
    /\ u \in upstream /\ u.phase = "fetching"
    /\ Install(Drain(SettleRequest(World, config, u, FALSE, <<>>, now), config, now))

\* response.json() yields an object with a list array
BodyParsed(u, vodIds, now) ==
    /\ u \in upstream /\ u.phase = "reading"
    /\ Install(Drain(SettleRequest(World, config, u, TRUE, vodIds, now), config, now))

\* response.json() yields something without a list array
BodyInvalid(u, now) ==
    /\ u \in upstream /\ u.phase = "reading"
    /\ Install(Drain(SettleRequest(World, config, u, FALSE, <<>>, now), config, now))

\* response.json() rejects (the body cannot be read or parsed)
BodyFails(u, now) ==
    /\ u \in upstream /\ u.phase = "reading"
    /\ Install(Drain(SettleRequest(World, config, u, FALSE, <<>>, now), config, now))

Next ==
    \/ \E q \in Queries, sel \in Selections, sg \in SignalArgs, et \in EffectiveTypes :
          \E cl \in CustomListsFor(sel) : AggregatedSearch(1, q, sel, cl, sg, et)
    \/ \E now \in Elapsed : ExternalAbort(1, now)
    \/ \E u \in upstream, ok \in BOOLEAN, now \in Elapsed : FetchResponds(u, ok, now)
    \/ \E u \in upstream, now \in Elapsed : FetchFails(u, now)
    \/ \E u \in upstream, now \in Elapsed : FetchTimeout(u, now)
    \/ \E u \in upstream, l \in VodLists, now \in Elapsed : BodyParsed(u, l, now)
    \/ \E u \in upstream, now \in Elapsed : BodyInvalid(u, now)
    \/ \E u \in upstream, now \in Elapsed : BodyFails(u, now)

Spec == Init /\ [][Next]_vars

\* ------------------------------------------------------------------------
\* Two concurrent aggregated searches on one service
\* ------------------------------------------------------------------------
\* Both sessions search the same query, so their calls for a source have the
\* same request key and meet in inflightRequests.
CoupledSelections == {<<"a">>, <<"a", "b">>}
CoupledSignals == {"live"}
CoupledTypes == {"2g", "4g"}

CoupledNext ==
    \/ \E s \in Sessions, q \in Queries, sel \in CoupledSelections,
          sg \in CoupledSignals, et \in CoupledTypes :
            AggregatedSearch(s, q, sel, <<>>, sg, et)
    \/ \E s \in Sessions, now \in Elapsed : ExternalAbort(s, now)
    \/ \E u \in upstream, ok \in BOOLEAN, now \in Elapsed : FetchResponds(u, ok, now)
    \/ \E u \in upstream, now \in Elapsed : FetchFails(u, now)
    \/ \E u \in upstream, now \in Elapsed : FetchTimeout(u, now)
    \/ \E u \in upstream, l \in VodLists, now \in Elapsed : BodyParsed(u, l, now)
    \/ \E u \in upstream, now \in Elapsed : BodyInvalid(u, now)
    \/ \E u \in upstream, now \in Elapsed : BodyFails(u, now)

CoupledSpec == Init /\ [][CoupledNext]_vars

\* ------------------------------------------------------------------------
\* Planning of an aggregated search on a health store with history
\* ------------------------------------------------------------------------
\* The constructor loads the health store that earlier runs persisted
\* (localStorage).  The stored records: a source with up to MaxCount
\* successes and a few failures, at an average latency below or above the
\* floor of 100 ms.
StoredLatencies == {80, 400}

StoredRecords ==
    {[avgLatencyMs |-> Rat(c[1], 1), successCount |-> c[2], failureCount |-> c[3],
      lastLatencyMs |-> c[1]] :
        c \in {d \in StoredLatencies \X (0..MaxCount) \X (0..MaxStoredFailures) :
                  d[2] + d[3] >= 1}}

\* no record stored for a source
NoRecord == [successCount |-> 0, failureCount |-> 0]

StoreOf(ra, rb, rc) ==
    LET all == [a |-> ra, b |-> rb, custom |-> rc]
    IN [k \in {x \in {"a", "b", "custom"} : all[x] # NoRecord} |-> all[k]]

\* the persisted stores: any record for source a, one call for b, and
\* possibly a record under 'custom' (the source code of every custom endpoint)
StoredHealth ==
    {StoreOf(ra, rb, rc) :
        ra \in StoredRecords \cup {NoRecord},
        rb \in {r \in StoredRecords : r.successCount + r.failureCount = 1}
                \cup {NoRecord},
        rc \in {r \in StoredRecords : /\ r.successCount = 1 /\ r.failureCount = 1
                                      /\ r.lastLatencyMs = 400}
                \cup {NoRecord}}

\* the customAPIs argument of the planning runs
PlanCustomAPIs == <<[url |-> "s:/x", name |-> "X"]>>

\* the selections of the planning runs: every order of every set of at most
\* MaxSel of three apiIds
PlanIds == {"a", "b", "custom_0"}

PlanSelections ==
    UNION {{sq \in [1..n -> PlanIds] : \A i, j \in 1..n : sq[i] = sq[j] => i = j} :
              n \in 0..Min(MaxSel, Cardinality(PlanIds))}

PlanInit ==
    /\ config = [topKFirstBatch |-> DefaultTopK, earlyAbortAfterTopK |-> FALSE]
    /\ sourceHealth \in StoredHealth
    /\ inflightRequests = <<>>
    /\ upstream = {}
    /\ fetchCount = 0
    /\ execCount = 0
    /\ sess = [s \in Sessions |-> IdleSession]
    /\ caller = [c \in Callers |-> IdleCaller]
    /\ gate = NewLimiter(1)
    /\ job = [j \in Jobs |-> "new"]

PlanNext ==
    \E q \in Queries, sel \in PlanSelections, et \in EffectiveTypes :
        AggregatedSearch(1, q, sel, PlanCustomAPIs, "none", et)

PlanSpec == PlanInit /\ [][PlanNext]_vars

\* ------------------------------------------------------------------------
\* The health store under successful calls of decreasing latency
\* ------------------------------------------------------------------------
Latencies == {20, 50, 80, 200, 400, 800}
ScoreSources == {"a", "custom"}

\* updateHealth(sourceCode, ok, latencyMs)
Record(sourceCode, ok, latencyMs) ==
    /\ sourceHealth' = updateHealth(sourceHealth, sourceCode, ok, latencyMs)
    /\ UNCHANGED <<config, inflightRequests, upstream, fetchCount, execCount, sess,
                   caller, gate, job>>

\* a successful call that was faster than the one before it
RecordFaster(sourceCode, latencyMs) ==
    /\ sourceCode \in DOMAIN sourceHealth
       => /\ sourceHealth[sourceCode].successCount < MaxRecords
          /\ latencyMs < sourceHealth[sourceCode].lastLatencyMs
    /\ Record(sourceCode, TRUE, latencyMs)

ScoreNext == \E src \in ScoreSources, l \in Latencies : RecordFaster(src, l)

ScoreInit ==
    /\ config = [topKFirstBatch |-> DefaultTopK, earlyAbortAfterTopK |-> FALSE]
    /\ ServiceInit
    /\ gate = NewLimiter(1)
    /\ job = [j \in Jobs |-> "new"]

ScoreSpec == ScoreInit /\ [][ScoreNext]_vars

\* ------------------------------------------------------------------------
\* Direct calls of searchVideos (a public method)
\* ------------------------------------------------------------------------
DirectQueries == {"", "q"}
DirectSources == {"a", "custom", "zz"}
DirectCustomApis == {"", "s:/x"}

\* searchVideos(query, source, customApi, signal) by caller c
CallSearchVideos(c, query, source, customApi, signal, now) ==
    /\ caller[c].st = "idle"
    /\ LET w == [World EXCEPT !.caller[c].signal = signal]
       IN Install(Drain(searchVideos(w, config, <<0, c>>, query, source, customApi),
                        config, now))

\* the signal that caller c passed fires
CallerAbort(c, now) ==
    /\ caller[c].st # "idle"
    /\ caller[c].signal = "live"
    /\ Install(Drain([World EXCEPT !.caller[c].signal = "aborted"], config, now))

UpstreamNext ==
    \/ \E u \in upstream, ok \in BOOLEAN, now \in Elapsed : FetchResponds(u, ok, now)
    \/ \E u \in upstream, now \in Elapsed : FetchFails(u, now)
    \/ \E u \in upstream, now \in Elapsed : FetchTimeout(u, now)
    \/ \E u \in upstream, l \in VodLists, now \in Elapsed : BodyParsed(u, l, now)
    \/ \E u \in upstream, now \in Elapsed : BodyInvalid(u, now)
    \/ \E u \in upstream, now \in Elapsed : BodyFails(u, now)

DedupNext ==
    \/ \E c \in Callers, q \in DirectQueries, src \in DirectSources,
          api \in DirectCustomApis, sg \in SignalArgs, now \in Elapsed :
            CallSearchVideos(c, q, src, api, sg, now)
    \/ \E c \in Callers, now \in Elapsed : CallerAbort(c, now)
    \/ UpstreamNext

DedupInit ==
    /\ config = [topKFirstBatch |-> DefaultTopK, earlyAbortAfterTopK |-> FALSE]
    /\ ServiceInit
    /\ gate = NewLimiter(1)
    /\ job = [j \in Jobs |-> "new"]

DedupSpec == DedupInit /\ [][DedupNext]_vars

\* ------------------------------------------------------------------------
\* A stand-alone limiter with arbitrary tasks
\* ------------------------------------------------------------------------
\* the job states after the limiter `l` has invoked the thunks in l.started
JobsStarted(l, jb) ==
    [j \in Jobs |->
        IF \E n \in 1..Len(l.started) : l.started[n] = j THEN "running"
        ELSE jb[j]]

LimiterInit ==
    /\ config = [topKFirstBatch |-> DefaultTopK, earlyAbortAfterTopK |-> FALSE]
    /\ ServiceInit
    /\ \E limit \in 1..MaxLimit : gate = NewLimiter(limit)
    /\ job = [j \in Jobs |-> "new"]

\* run(task) is called for a task not yet submitted
Run(j) ==
    /\ job[j] = "new"
    /\ LET l == limiterRun(gate, j)
       IN /\ gate' = [l EXCEPT !.started = <<>>]
          /\ job' = JobsStarted(l, [job EXCEPT ![j] = "queued"])
    /\ UNCHANGED svars

\* the promise of a started task settles: the caller's promise is resolved
\* or rejected, then the finally handler runs
TaskSettles(j, ok) ==
    /\ job[j] = "running"
    /\ LET l == limiterFinally(gate)
       IN /\ gate' = [l EXCEPT !.started = <<>>]
          /\ job' = JobsStarted(l, [job EXCEPT ![j] = IF ok THEN "resolved"
                                                           ELSE "rejected"])
    /\ UNCHANGED svars

LimiterNext ==
    \/ \E j \in Jobs : Run(j)
    \/ \E j \in Jobs : TaskSettles(j, TRUE)
    \/ \E j \in Jobs : TaskSettles(j, FALSE)

LimiterSpec == LimiterInit /\ [][LimiterNext]_vars

\* every started task eventually settles
LimiterFairSpec ==
    /\ LimiterSpec
    /\ \A j \in Jobs : WF_vars(TaskSettles(j, TRUE) \/ TaskSettles(j, FALSE))

\* ------------------------------------------------------------------------
\* Properties
\* ------------------------------------------------------------------------
Settled(j) == job[j] \in {"resolved", "rejected"}

\* the callers that have called searchVideos and passed its validation
Sharing(c, d) == caller[c].req # NoReq /\ caller[c].req = caller[d].req

\* C1: request dedup.  Under any interleaving of direct searchVideos calls,
\* a request key has at most one outstanding upstream call, which is the one
\* registered in inflightRequests; exec() has run once per request and never
\* for a caller that found a pending entry (such a caller waits on the call
\* of another caller); and the callers that share a call settle together
\* with the same result (all code 200 with the same list, or all code 400).
C1_Dedup ==
    /\ \A u, v \in upstream : u.key = v.key => u = v
    /\ \A u \in upstream : u.key \in DOMAIN inflightRequests
                           /\ inflightRequests[u.key] = u.id
    /\ \A k \in DOMAIN inflightRequests : \E u \in upstream : u.key = k
    /\ execCount = Cardinality({c \in Callers : caller[c].req = <<0, c>>})
    /\ fetchCount <= execCount
    /\ \A c \in Callers :
          caller[c].st = "waiting" <=>
              \E u \in upstream : u.id = caller[c].req
                                  /\ \E n \in DOMAIN u.waiters : u.waiters[n] = <<0, c>>
    /\ \A c, d \in Callers :
          Sharing(c, d) => /\ caller[c].st = caller[d].st
                           /\ caller[c].obs = caller[d].obs

\* two callers have shared one upstream call and both got its list
C1_Witness ==
    \E c, d \in Callers :
        /\ c # d /\ Sharing(c, d)
        /\ caller[c].st = "done" /\ caller[d].st = "done"
        /\ caller[c].obs.code = 200 /\ Len(caller[c].obs.list) > 0
        /\ execCount = 1

\* C2: the limiter never runs more than `limit` tasks: in every state
\* 0 <= running <= limit, and running is the number of tasks that have been
\* started and have not settled.
C2_RunningWithinLimit ==
    /\ gate.limit >= 1
    /\ 0 <= gate.running /\ gate.running <= gate.limit
    /\ gate.running = Cardinality({j \in Jobs : job[j] = "running"})

\* the limiter is full and a task waits in the queue
C2_Witness ==
    /\ gate.running = gate.limit
    /\ gate.limit > 1
    /\ Len(gate.queue) > 0

\* C3: limiter liveness.  If every started task eventually settles, every
\* task submitted through run is eventually started and eventually settles,
\* whether the tasks before it succeed or fail.
C3_EverySubmittedTaskSettles ==
    \A j \in Jobs : (job[j] \in {"queued", "running"}) ~> Settled(j)

\* with limit 1, a task runs after the task before it has failed, while a
\* third one is queued
C3_Witness ==
    /\ gate.limit = 1
    /\ \E j, k, m \in Jobs :
          job[j] = "rejected" /\ job[k] = "running" /\ job[m] = "queued"

TopK == Max(1, config.topKFirstBatch)
Unsettled(ss) == {i \in DOMAIN ss.tasks : ss.tasks[i].st # "settled"}

RECURSIVE Flatten(_)
Flatten(batches) ==
    IF Len(batches) = 0 THEN <<>> ELSE Head(batches) \o Flatten(Tail(batches))

\* how many items of the sequence carry the identity (source_code, vod_id)
Occurrences(items, code, vod) ==
    Cardinality({n \in DOMAIN items :
                    items[n].source_code = code /\ items[n].vod_id = vod})

\* C4: top-K early abort, as claimed: with earlyAbortAfterTopK and no
\* external abort, once K sources have delivered, every task of the session
\* that has not settled, in flight or still queued, has had its controller
\* triggered.
C4_TopKAbortsEveryUnsettledTask ==
    \A s \in Sessions :
        (/\ config.earlyAbortAfterTopK
         /\ sess[s].signal # "aborted"
         /\ sess[s].reachedTopK >= TopK)
        => \A i \in Unsettled(sess[s]) : sess[s].tasks[i].ctrl = "aborted"

\* C5: a call of aggregatedSearch with a non-empty selection and an already
\* aborted signal rejects at once, creates no task, reaches neither the
\* network nor the callback and changes neither the health store nor the
\* in-flight map.
C5_PreAbortedRejects ==
    [][\A q \in Queries, sel \in Selections, et \in EffectiveTypes :
         \A cl \in CustomListsFor(sel) :
           (Len(sel) > 0 /\ AggregatedSearch(1, q, sel, cl, "aborted", et))
           => /\ sess'[1].status = "rejected"
              /\ sess'[1].tasks = <<>>
              /\ sess'[1].delivered = <<>>
              /\ fetchCount' = fetchCount /\ execCount' = execCount
              /\ upstream' = upstream
              /\ sourceHealth' = sourceHealth
              /\ inflightRequests' = inflightRequests]_vars

\* the session was called with an aborted signal and is rejected
C5_Witness ==
    /\ sess[1].status = "rejected"
    /\ sess[1].signal = "aborted"
    /\ ~sess[1].aborted
    /\ sess[1].tasks = <<>>

\* C6: all-settle join.  The result is resolved only when every per-source
\* task has settled, and while the external signal has not fired (or none
\* was given) a called session is resolved as soon as all of them have, and
\* is never rejected.
C6_AllSettleJoin ==
    \A s \in Sessions :
        /\ sess[s].status = "resolved" => Unsettled(sess[s]) = {}
        /\ (sess[s].signal # "aborted" /\ sess[s].status # "idle")
           => /\ sess[s].status # "rejected"
              /\ Unsettled(sess[s]) = {} => sess[s].status = "resolved"

\* a session of several sources has resolved without abort, one source
\* having succeeded and one having failed
C6_Witness ==
    /\ sess[1].status = "resolved"
    /\ sess[1].signal # "aborted"
    /\ \E i, j \in DOMAIN sess[1].tasks :
          /\ sess[1].tasks[i].obs.code = 200
          /\ sess[1].tasks[j].obs.code = 400

\* C7: cancel against settle.  When the external signal fires while a task
\* is unsettled the result becomes rejected, however many tasks have
\* completed; when it fires after the result has resolved the result stays
\* resolved; and a decided result never changes.
C7_CancelSettleRace ==
    [][\A s \in Sessions :
         /\ (sess[s].signal = "live" /\ sess'[s].signal = "aborted")
            => /\ Unsettled(sess[s]) # {} => sess'[s].status = "rejected"
               /\ Unsettled(sess[s]) = {} => /\ sess[s].status = "resolved"
                                              /\ sess'[s].status = "resolved"
         /\ sess[s].status \in {"resolved", "rejected"}
            => sess'[s].status = sess[s].status]_vars

\* the signal fired after one source had delivered and while another was
\* still in flight
C7_Witness ==
    /\ sess[1].status = "rejected"
    /\ sess[1].aborted
    /\ Len(sess[1].delivered) > 0
    /\ Unsettled(sess[1]) # {}

\* a failed source costs nothing but its own items
IsolatedFailures ==
    \A s \in Sessions :
        /\ sess[s].status = "rejected" => sess[s].signal = "aborted"
        /\ \A n \in DOMAIN Flatten(sess[s].delivered) :
              \E i \in DOMAIN sess[s].tasks :
                  /\ sess[s].tasks[i].obs.code = 200
                  /\ \E m \in DOMAIN sess[s].tasks[i].obs.list :
                        sess[s].tasks[i].obs.list[m] = Flatten(sess[s].delivered)[n]

\* the steps task i of the session still needs: 3 while queued, 2 while its
\* call waits for the response, 1 while the body is read, 0 once settled
TaskWork(ss, i) ==
    CASE ss.tasks[i].st = "queued" -> 3
      [] ss.tasks[i].st = "settled" -> 0
      [] OTHER -> IF \E u \in upstream : u.id = ss.tasks[i].req /\ u.phase = "reading"
                  THEN 1 ELSE 2

RECURSIVE SumWork(_, _)
SumWork(ss, n) == IF n = 0 THEN 0 ELSE TaskWork(ss, n) + SumWork(ss, n - 1)
Work(ss) == SumWork(ss, Len(ss.tasks))

\* a pending session that was not aborted can always go on: each of its
\* tasks is settled, or waits for an outstanding call, or is queued behind
\* a limiter that is full of tasks waiting for outstanding calls
CanProgress ==
    \A s \in Sessions :
        (sess[s].status = "pending" /\ sess[s].signal # "aborted") =>
            /\ Unsettled(sess[s]) # {}
            /\ \A i \in DOMAIN sess[s].tasks :
                  sess[s].tasks[i].st = "waiting"
                  => \E u \in upstream : u.id = sess[s].tasks[i].req
            /\ Len(sess[s].limiter.queue) > 0
               => Cardinality({i \in DOMAIN sess[s].tasks :
                                  sess[s].tasks[i].st = "waiting"})
                  = sess[s].limiter.limit

\* C8: failure isolation.  The result is rejected only by the external
\* signal; every delivered item comes from a source whose call succeeded, a
\* failed call contributing nothing; a failure never stops the dispatch of
\* the other sources: a pending session that was not aborted always has an
\* outstanding call to wait for, its queued tasks stand behind a full
\* limiter, and every step without abort strictly reduces the work left, so
\* that the session resolves once the outstanding calls have ended.
C8_FailureIsolation ==
    /\ []IsolatedFailures
    /\ []CanProgress
    /\ [][\A s \in Sessions :
            (sess[s].status = "pending" /\ sess'[s].signal = sess[s].signal)
            => /\ Work(sess[s])' < Work(sess[s])
               /\ Work(sess[s])' = 0 <=> sess'[s].status = "resolved"]_vars

\* one source has failed, a source dispatched after it has delivered, and
\* the session has resolved
C8_Witness ==
    /\ sess[1].status = "resolved"
    /\ sess[1].limiter.limit = 1
    /\ Len(sess[1].tasks) >= 2
    /\ sess[1].tasks[1].obs.code = 400
    /\ sess[1].tasks[2].obs.code = 200
    /\ Len(sess[1].delivered) > 0

ItemKeys(items) == {ItemKey(items[n]) : n \in DOMAIN items}

\* C9: streaming without re-delivery.  In every step the seen set only
\* grows and the callback log only grows; every new batch is non-empty and
\* made of items of one task's result; no new item has a key that was in
\* seen before the step or that another new item has; and seen is exactly
\* the set of keys delivered so far.
C9_NoRedelivery ==
    [][\A s \in Sessions :
         LET old == sess[s].delivered
             new == sess'[s].delivered
             fresh == Flatten(SubSeq(new, Len(old) + 1, Len(new)))
         IN /\ sess[s].seen \subseteq sess'[s].seen
            /\ Len(old) <= Len(new) /\ SubSeq(new, 1, Len(old)) = old
            /\ \A b \in (Len(old) + 1)..Len(new) :
                  /\ Len(new[b]) > 0
                  /\ \E i \in DOMAIN sess'[s].tasks :
                        /\ sess'[s].tasks[i].obs.code # 0
                        /\ \A n \in DOMAIN new[b] :
                              \E m \in DOMAIN sess'[s].tasks[i].obs.list :
                                  sess'[s].tasks[i].obs.list[m] = new[b][n]
            /\ ItemKeys(fresh) \cap sess[s].seen = {}
            /\ \A n, m \in DOMAIN fresh :
                  (fresh[n].source_code = fresh[m].source_code
                   /\ fresh[n].vod_id = fresh[m].vod_id) => n = m
            /\ sess'[s].seen = ItemKeys(Flatten(new))]_vars

\* two batches were delivered and an item of a result was held back because
\* its key had been seen
C9_Witness ==
    /\ Len(sess[1].delivered) >= 2
    /\ \E i \in DOMAIN sess[1].tasks :
          /\ sess[1].tasks[i].obs.code # 0
          /\ Len(sess[1].tasks[i].obs.list) = 3
          /\ \E b \in DOMAIN sess[1].delivered :
                /\ Len(sess[1].delivered[b]) = 1
                /\ sess[1].delivered[b][1].vod_id = "2"
                /\ sess[1].delivered[b][1] = sess[1].tasks[i].obs.list[3]

\* C10: dedup key granularity.  In a session that was not aborted, every
\* item of every successful result is delivered exactly once per
\* (source_code, vod_id): an item repeated in a list is delivered once, and
\* items of different source codes with the same vod_id are each delivered.
C10_KeyGranularity ==
    \A s \in Sessions :
        ~sess[s].aborted =>
            \A i \in DOMAIN sess[s].tasks :
                (sess[s].tasks[i].st = "settled" /\ sess[s].tasks[i].obs.code # 0)
                => \A n \in DOMAIN searchSingleSourceResult(sess[s].tasks[i].obs) :
                      LET it == sess[s].tasks[i].obs.list[n]
                      IN Occurrences(Flatten(sess[s].delivered),
                                     it.source_code, it.vod_id) = 1

\* vod_id "1" was delivered for two source codes, one of the lists holding
\* it twice
C10_Witness ==
    /\ ~sess[1].aborted
    /\ \E n, m \in DOMAIN Flatten(sess[1].delivered) :
          /\ Flatten(sess[1].delivered)[n].vod_id = "1"
          /\ Flatten(sess[1].delivered)[m].vod_id = "1"
          /\ Flatten(sess[1].delivered)[n].source_code = "a"
          /\ Flatten(sess[1].delivered)[m].source_code = "custom"
    /\ \E i \in DOMAIN sess[1].tasks :
          /\ sess[1].tasks[i].obs.code # 0
          /\ Len(sess[1].tasks[i].obs.list) = 3

\* the position of an apiId in a sequence of distinct apiIds
PositionIn(ids, id) == CHOOSE n \in DOMAIN ids : ids[n] = id

\* C11: dispatch order.  The tasks of a planned session are the selected
\* sources, each once, in descending order of their score at planning time;
\* sources of equal score stand in their input order; a source without a
\* record stands after every source that has one; and the tasks are handed
\* to the limiter in that order: the first `limit` of them are started, the
\* others wait in the queue in the same order.
C11_DispatchOrder ==
    sess[1].status = "pending" =>
        LET sel == sess[1].selectedAPIs
            T == sess[1].tasks
            score(i) == getSourceScore(sourceHealth, T[i].apiId)
            limit == sess[1].limiter.limit
        IN /\ Len(T) = Len(sel)
           /\ {T[i].apiId : i \in DOMAIN T} = Range(sel)
           /\ \A i, j \in DOMAIN T :
                 i < j => /\ ~RatLess(score(i), score(j))
                          /\ score(i) = score(j)
                             => PositionIn(sel, T[i].apiId) < PositionIn(sel, T[j].apiId)
           /\ \A i, j \in DOMAIN T :
                 (T[i].apiId \in DOMAIN sourceHealth
                  /\ T[j].apiId \notin DOMAIN sourceHealth) => i < j
           /\ \A i \in DOMAIN T : T[i].st = "queued" <=> i > limit
           /\ sess[1].limiter.queue = [n \in 1..Max(0, Len(T) - limit) |-> limit + n]

\* the input C, B, A (no history; slow and healthy; fast and healthy) is
\* dispatched A, B, C
C11_Witness ==
    /\ sess[1].status = "pending"
    /\ sess[1].selectedAPIs = <<"custom_0", "b", "a">>
    /\ [i \in 1..3 |-> sess[1].tasks[i].apiId] = <<"a", "b", "custom_0">>
    /\ "a" \in DOMAIN sourceHealth /\ "b" \in DOMAIN sourceHealth
    /\ sourceHealth["a"].failureCount = 0 /\ sourceHealth["b"].failureCount = 0
    /\ RatLess(sourceHealth["a"].avgLatencyMs, sourceHealth["b"].avgLatencyMs)

RECURSIVE SumOf(_, _)
SumOf(f, S) ==
    IF S = {} THEN 0
    ELSE LET x == CHOOSE y \in S : TRUE IN f[x] + SumOf(f, S \ {x})

\* the failures and the attempts recorded for the selected ids
SelectedFailures(ss) ==
    SumOf([id \in DOMAIN sourceHealth |-> sourceHealth[id].failureCount],
          Range(ss.selectedAPIs) \cap DOMAIN sourceHealth)
SelectedAttempts(ss) ==
    SumOf([id \in DOMAIN sourceHealth |->
              sourceHealth[id].successCount + sourceHealth[id].failureCount],
          Range(ss.selectedAPIs) \cap DOMAIN sourceHealth)

C13_ScoreStrictlyIncreases ==
    [][\A src \in ScoreSources :
         /\ src \notin DOMAIN sourceHealth
            => getSourceScore(sourceHealth, src) = Rat(0, 1)
         /\ (src \in DOMAIN sourceHealth' /\ (src \notin DOMAIN sourceHealth
                                              \/ sourceHealth'[src] # sourceHealth[src]))
            => RatLess(getSourceScore(sourceHealth, src),
                       getSourceScore(sourceHealth', src))]_vars

\* C13: score monotonicity.  The score of a source without a record is 0
\* and that of a source with a record is above 0; a record(ok = true) of a
\* run of strictly decreasing latencies without failures never lowers the
\* score of its source: it strictly increases it when the source had no
\* record or its average latency was above 100 ms, and leaves it unchanged
\* when the average latency was at or below 100 ms.
C13_ScoreMonotoneAboveFloor ==
    [][\A src \in ScoreSources :
         /\ src \notin DOMAIN sourceHealth
            => getSourceScore(sourceHealth, src) = Rat(0, 1)
         /\ src \in DOMAIN sourceHealth'
            => RatLess(Rat(0, 1), getSourceScore(sourceHealth', src))
         /\ (src \in DOMAIN sourceHealth' /\ (src \notin DOMAIN sourceHealth
                                              \/ sourceHealth'[src] # sourceHealth[src]))
            => IF src \notin DOMAIN sourceHealth
                  \/ RatLess(Rat(100, 1), sourceHealth[src].avgLatencyMs)
               THEN RatLess(getSourceScore(sourceHealth, src),
                            getSourceScore(sourceHealth', src))
               ELSE getSourceScore(sourceHealth', src)
                    = getSourceScore(sourceHealth, src)]_vars

\* three successes of decreasing latency (80, 50, 20 ms) were recorded for
\* a source: its average latency is below the floor of 100 ms
C13_Witness ==
    \E src \in DOMAIN sourceHealth :
        /\ sourceHealth[src].successCount = 3
        /\ sourceHealth[src].failureCount = 0
        /\ sourceHealth[src].lastLatencyMs = 20
        /\ RatLess(sourceHealth[src].avgLatencyMs, Rat(100, 1))

\* C14: empty selection.  A call of aggregatedSearch with an empty
\* selection resolves at once whatever its signal, an already aborted one
\* included; it creates no task, never invokes the callback, reaches
\* neither the network nor the in-flight map nor the health store.
C14_EmptySelectionResolves ==
    [][\A q \in Queries, sg \in SignalArgs, et \in EffectiveTypes :
         \A cl \in CustomLists \cup {<<>>} :
           AggregatedSearch(1, q, <<>>, cl, sg, et)
           => /\ sess'[1].status = "resolved"
              /\ sess'[1].tasks = <<>>
              /\ sess'[1].delivered = <<>>
              /\ fetchCount' = fetchCount /\ execCount' = execCount
              /\ upstream' = upstream
              /\ sourceHealth' = sourceHealth
              /\ inflightRequests' = inflightRequests]_vars

\* a session called with no source has resolved without a task
C14_Witness ==
    /\ sess[1].status = "resolved"
    /\ sess[1].selectedAPIs = <<>>
    /\ sess[1].tasks = <<>>
    /\ sess[1].delivered = <<>>
    /\ execCount = 0

\* the ids of the calls of exec() that have not settled
PendingIds(ups) == {u.id : u \in ups}

\* C15: dedup entry lifetime.  The keys of the in-flight map are exactly the
\* keys of the upstream requests that have not settled; when a request
\* settles, by success, failure, timeout or cancellation and with any number
\* of waiting callers, its entry is gone and all its callers have their
\* result; the map is empty when no request is pending; and a valid call
\* whose key has no entry runs a fresh exec().
C15_EntryLifetime ==
    /\ [](DOMAIN inflightRequests = {u.key : u \in upstream})
    /\ [](upstream = {} => inflightRequests = <<>>)
    /\ [][\A u \in upstream :
            u.id \notin PendingIds(upstream')
            => /\ u.key \notin DOMAIN inflightRequests'
               /\ \A n \in DOMAIN u.waiters : caller'[u.waiters[n][2]].st = "done"]_vars
    /\ [][\A c \in Callers, src \in DOMAIN API_SITES, sg \in SignalArgs, now \in Elapsed :
            (/\ RequestKey("q", src, "") \notin DOMAIN inflightRequests
             /\ CallSearchVideos(c, "q", src, "", sg, now))
            => /\ execCount' = execCount + 1
               /\ caller'[c].req = <<0, c>>]_vars

\* two callers have asked for the same key one after the other: each ran
\* its own request, the first one failed, and the map is empty again
C15_Witness ==
    /\ inflightRequests = <<>>
    /\ execCount = 2
    /\ \E c, d \in Callers :
          /\ c # d
          /\ caller[c].st = "done" /\ caller[d].st = "done"
          /\ caller[c].req = <<0, c>> /\ caller[d].req = <<0, d>>
          /\ caller[c].obs.code = 400
          /\ caller[d].obs.code = 200
          /\ "a" \in DOMAIN sourceHealth /\ "custom" \notin DOMAIN sourceHealth
          /\ sourceHealth["a"].successCount = 1 /\ sourceHealth["a"].failureCount = 1

\* the calls recorded for a source: successCount, failureCount
Successes(h, src) == IF src \in DOMAIN h THEN h[src].successCount ELSE 0
Failures(h, src) == IF src \in DOMAIN h THEN h[src].failureCount ELSE 0
HealthSources == DOMAIN API_SITES \cup {"custom"}

\* the calls of exec() for `src` that settle in the step, with success (ok)
\* or with failure: they are pending before the step and not after it, and
\* the caller that created the call has its result
SettledInStep(src, ok) ==
    {u \in upstream :
        /\ u.source = src
        /\ u.id \notin PendingIds(upstream')
        /\ (caller'[u.id[2]].obs.code = 200) = ok}

\* C16: health accounting.  The records of the health store count the
\* settled calls of exec(): successCount + failureCount over all sources is
\* the number of exec() calls that have settled, pending calls and callers
\* that joined a call counting for nothing.  In every step a record is never
\* deleted and its counters never decrease; successCount of a source grows
\* by the number of its calls that settle with success in the step, and
\* failureCount by the number of its calls that settle with failure (a call
\* made with an already aborted signal runs exec() and fails within the
\* step of the call); a step in which no call settles leaves the store alone.
C16_HealthAccounting ==
    /\ [](SumOf([src \in HealthSources |->
                    Successes(sourceHealth, src) + Failures(sourceHealth, src)],
                HealthSources)
          = execCount - Cardinality(upstream))
    /\ [](DOMAIN sourceHealth \subseteq HealthSources)
    /\ [][\A src \in HealthSources :
            LET failedAtOnce ==
                    IF /\ execCount' = execCount + 1
                       /\ Cardinality(upstream') = Cardinality(upstream)
                       /\ Failures(sourceHealth', src) > Failures(sourceHealth, src)
                    THEN 1 ELSE 0
            IN /\ src \in DOMAIN sourceHealth => src \in DOMAIN sourceHealth'
               /\ Successes(sourceHealth', src)
                  = Successes(sourceHealth, src) + Cardinality(SettledInStep(src, TRUE))
               /\ Failures(sourceHealth', src)
                  = Failures(sourceHealth, src) + Cardinality(SettledInStep(src, FALSE))
                    + failedAtOnce]_vars
    /\ [][(PendingIds(upstream) \subseteq PendingIds(upstream')
           /\ execCount' - execCount
              = Cardinality(PendingIds(upstream') \ PendingIds(upstream)))
          => sourceHealth' = sourceHealth]_vars

\* two callers shared one call that failed: one failure is recorded
C16_Witness ==
    /\ execCount = 1
    /\ upstream = {}
    /\ \E c, d \in Callers :
          /\ c # d /\ Sharing(c, d)
          /\ caller[c].st = "done" /\ caller[d].st = "done"
          /\ caller[c].obs.code = 400
    /\ Failures(sourceHealth, "a") = 1 /\ Successes(sourceHealth, "a") = 0

\* C17: timeout and cancellation of one fetch, as claimed for the signal:
\* when the signal that a caller passed to searchVideos fires while its call
\* has not settled, the call settles as a failure in that very step, in the
\* phase of waiting for the response as in the phase of reading the body,
\* for the caller that created the upstream request as for one that joined.
C17_AbortSettlesEveryCaller ==
    [][\A c \in Callers :
         (/\ caller[c].st = "waiting"
          /\ caller[c].signal = "live"
          /\ caller'[c].signal = "aborted")
         => /\ caller'[c].st = "done"
            /\ caller'[c].obs.code = 400]_vars

\* the arguments that the validation of searchVideos turns down
InvalidArguments(query, source, customApi) ==
    \/ query = ""
    \/ (source = "custom" /\ customApi = "")
    \/ (source \notin DOMAIN API_SITES /\ source # "custom")

\* C19: input validation.  A call of searchVideos with a missing query, a
\* 'custom' source without endpoint, or an unknown source id returns at once
\* the failed result (code 400, empty list, a message); no exec() runs, no
\* request reaches the network, the in-flight map and the health store are
\* unchanged.
C19_ValidationFails ==
    [][\A c \in Callers, q \in DirectQueries, src \in DirectSources,
          api \in DirectCustomApis, sg \in SignalArgs, now \in Elapsed :
         (InvalidArguments(q, src, api) /\ CallSearchVideos(c, q, src, api, sg, now))
         => /\ caller'[c].st = "done"
            /\ caller'[c].obs.code = 400
            /\ caller'[c].obs.list = <<>>
            /\ caller'[c].obs.msg # ""
            /\ caller'[c].req = NoReq
            /\ fetchCount' = fetchCount /\ execCount' = execCount
            /\ upstream' = upstream
            /\ inflightRequests' = inflightRequests
            /\ sourceHealth' = sourceHealth]_vars

\* a call with an unknown source id has returned its failed result while
\* the valid call of another caller is pending
C19_Witness ==
    \E c, d \in Callers :
        /\ caller[c].st = "done"
        /\ caller[c].obs = Failed400("invalid api source")
        /\ caller[c].req = NoReq
        /\ caller[d].st = "waiting"
        /\ execCount = 1
        /\ sourceHealth = <<>>

\* the tasks of session s whose fetch the top-K early abort of the step
\* cancels: the external signal does not fire in the step, the controller of
\* the task is triggered in it, and the task's own request waits for its
\* response
CancelledByTopK(s) ==
    {i \in DOMAIN sess[s].tasks :
        /\ sess'[s].signal = sess[s].signal
        /\ sess[s].tasks[i].ctrl = "live"
        /\ sess'[s].tasks[i].ctrl = "aborted"
        /\ \E u \in upstream : u.id = <<s, i>> /\ u.phase = "fetching"}

\* the source code under which the call of task i of session s is recorded
TaskSource(s, i) == (CHOOSE u \in upstream : u.id = <<s, i>>).source

\* the callback log of the session only grows and its result is not rejected
NothingSuppressed(s) ==
    /\ Len(sess[s].delivered) <= Len(sess'[s].delivered)
    /\ SubSeq(sess'[s].delivered, 1, Len(sess[s].delivered)) = sess[s].delivered
    /\ sess'[s].status # "rejected"

\* C18 as claimed: a fetch cancelled by the top-K early abort leaves the
\* failureCount of its source unchanged, and the results of the other
\* sources are not suppressed.
C18_EarlyAbortNotRecorded ==
    [][\A s \in Sessions :
         CancelledByTopK(s) # {}
         => /\ \A i \in CancelledByTopK(s) :
                  Failures(sourceHealth', TaskSource(s, i))
                  = Failures(sourceHealth, TaskSource(s, i))
            /\ NothingSuppressed(s)]_vars

\* C18: early abort and health.  A fetch cancelled by the top-K early abort
\* is recorded as a failed call like any other: the task settles with a
\* failed result, the failureCount of every source grows by the number of
\* its fetches cancelled in the step, and the record of a source with one
\* cancelled fetch and no success in the step is the one updateHealth(source,
\* false, elapsed) gives.  The cancellation suppresses nothing: the batches
\* delivered so far stay, the batch that reached the threshold is delivered,
\* and the result is not rejected.
C18_EarlyAbortRecordedAsFailure ==
    [][\A s \in Sessions :
         CancelledByTopK(s) # {}
         => /\ \A i \in CancelledByTopK(s) :
                  /\ sess'[s].tasks[i].st = "settled"
                  /\ sess'[s].tasks[i].obs.code = 400
            /\ \A src \in HealthSources :
                  LET n == Cardinality({i \in CancelledByTopK(s) : TaskSource(s, i) = src})
                  IN /\ Failures(sourceHealth', src) = Failures(sourceHealth, src) + n
                     /\ (n = 1 /\ Successes(sourceHealth', src) = Successes(sourceHealth, src))
                        => \E now \in Elapsed :
                              sourceHealth'[src]
                              = updateHealth(sourceHealth, src, FALSE, now)[src]
            /\ NothingSuppressed(s)
            /\ Len(sess'[s].delivered) = Len(sess[s].delivered) + 1
            /\ config.earlyAbortAfterTopK
            /\ sess'[s].reachedTopK >= TopK]_vars

\* the early abort has cancelled the fetch of a source: the task has a
\* failed result and its source a recorded failure, another source has
\* delivered, and the session has resolved
C18_Witness ==
    /\ config.earlyAbortAfterTopK
    /\ sess[1].signal # "aborted"
    /\ sess[1].status = "resolved"
    /\ Len(sess[1].delivered) = 1
    /\ \E i \in DOMAIN sess[1].tasks :
          /\ sess[1].tasks[i].ctrl = "aborted"
          /\ sess[1].tasks[i].obs.code = 400
          /\ sess[1].tasks[i].apiId = "b"
          /\ Failures(sourceHealth, "b") = 1 /\ Successes(sourceHealth, "b") = 0

\* C20: one-way cancellation.  A step in which the external signal does not
\* fire, whatever controllers it triggers, leaves the aborted flag of the
\* session alone and does not reject its result; a called session whose
\* signal has not fired is not aborted, not rejected, and resolved once all
\* its tasks have settled; and when the external signal fires, every
\* controller created so far is triggered.
C20_OneWayCancellation ==
    /\ [][\A s \in Sessions :
            sess'[s].signal = sess[s].signal
            => /\ sess'[s].aborted = sess[s].aborted
               /\ sess'[s].status = "rejected" => sess[s].status = "rejected"]_vars
    /\ [](\A s \in Sessions :
            (sess[s].signal # "aborted" /\ sess[s].status # "idle")
            => /\ ~sess[s].aborted
               /\ sess[s].status # "rejected"
               /\ Unsettled(sess[s]) = {} => sess[s].status = "resolved")
    /\ [][\A s \in Sessions :
            (sess[s].signal = "live" /\ sess'[s].signal = "aborted")
            => \A i \in DOMAIN sess[s].tasks :
                  sess[s].tasks[i].ctrl # "none" => sess'[s].tasks[i].ctrl = "aborted"]_vars

\* the early abort has triggered the controller of a task while the
\* external signal is live; the session is not aborted and has resolved
C20_Witness ==
    /\ config.earlyAbortAfterTopK
    /\ sess[1].signal = "live"
    /\ ~sess[1].aborted
    /\ sess[1].status = "resolved"
    /\ sess[1].reachedTopK >= TopK
    /\ \E i \in DOMAIN sess[1].tasks : sess[1].tasks[i].ctrl = "aborted"

\* the queue of the stand-alone limiter once the tasks submitted in the step
\* are appended to it
QueueWithSubmitted ==
    IF \E j \in Jobs : job[j] = "new" /\ job'[j] # "new"
    THEN Append(gate.queue, CHOOSE j \in Jobs : job[j] = "new" /\ job'[j] # "new")
    ELSE gate.queue

\* the tasks the stand-alone limiter starts in the step
StartedInStep == {j \in Jobs : job[j] \in {"new", "queued"} /\ job'[j] = "running"}

\* C21: limiter FIFO admission.  The queue holds the submitted tasks that
\* are not started, each once, and is not empty only while the limiter is
\* full; in every step at most one task is submitted and at most one is
\* started, a submitted task goes to the tail of the queue and the task
\* started is the head of the queue, so tasks start in the order of their
\* submission and never before an earlier task that is still queued; and a
\* step settles at most one task and changes the outcome of no other.
C21_FifoAdmission ==
    /\ [](/\ {gate.queue[n] : n \in 1..Len(gate.queue)} = {j \in Jobs : job[j] = "queued"}
          /\ Len(gate.queue) = Cardinality({j \in Jobs : job[j] = "queued"})
          /\ Len(gate.queue) > 0 => gate.running = gate.limit)
    /\ [][/\ Cardinality({j \in Jobs : job[j] = "new" /\ job'[j] # "new"}) <= 1
          /\ Cardinality(StartedInStep) <= 1
          /\ \E n \in 0..Len(QueueWithSubmitted) :
                /\ gate'.queue = SubSeq(QueueWithSubmitted, n + 1, Len(QueueWithSubmitted))
                /\ StartedInStep = {QueueWithSubmitted[m] : m \in 1..n}
          /\ \A j, k \in Jobs :
                (job[j] = "queued" /\ job'[j] = "queued" /\ k \in StartedInStep)
                => job[k] = "queued"
                   /\ \E a, b \in 1..Len(gate.queue) :
                         a < b /\ gate.queue[a] = k /\ gate.queue[b] = j
          /\ Cardinality({j \in Jobs : ~Settled(j) /\ Settled(j)'}) <= 1
          /\ \A j \in Jobs : Settled(j) => job'[j] = job[j]
          /\ \A j \in Jobs : (~Settled(j) /\ Settled(j)') => job[j] = "running"]_vars

\* with limit 1, a task has failed, the task submitted after it runs, and
\* two tasks submitted later wait in the order of their submission
C21_Witness ==
    /\ gate.limit = 1
    /\ Len(gate.queue) = 2
    /\ \E j, k \in Jobs : job[j] = "rejected" /\ job[k] = "running"
    /\ \A j \in Jobs : job[j] # "resolved"

\* C22: silence after external abort.  In every step that ends with the
\* external signal of a session fired (the step of the abort and every step
\* after it), whatever sources complete in it, the callback log of the
\* session does not grow, and every task of the session that the limiter
\* starts in the step returns at once: it is settled with no controller, no
\* call of searchVideos and no result, and no upstream call of the session
\* appears.
C22_SilenceAfterAbort ==
    [][\A s \in Sessions :
         sess'[s].signal = "aborted"
         => /\ sess'[s].delivered = sess[s].delivered
            /\ sess'[s].seen = sess[s].seen
            /\ sess'[s].reachedTopK = sess[s].reachedTopK
            /\ \A i \in DOMAIN sess[s].tasks :
                  (sess[s].tasks[i].st = "queued" /\ sess'[s].tasks[i].st # "queued")
                  => /\ sess'[s].tasks[i].st = "settled"
                     /\ sess'[s].tasks[i].ctrl = "none"
                     /\ sess'[s].tasks[i].req = NoReq
                     /\ sess'[s].tasks[i].obs = NoObs
            /\ \A u \in upstream' : u.id[1] = s => \E v \in upstream : v.id = u.id
            /\ (\A u \in upstream' : u.id[1] = s)
               => fetchCount' = fetchCount /\ execCount' = execCount]_vars

\* after the external abort a source has completed with a list of items
\* that was never handed to the callback, and a task for a configured source
\* was started by the limiter and returned without a call
C22_Witness ==
    /\ sess[1].signal = "aborted"
    /\ sess[1].delivered = <<>>
    /\ \E i \in DOMAIN sess[1].tasks :
          /\ sess[1].tasks[i].obs.code = 200
          /\ Len(sess[1].tasks[i].obs.list) > 0
    /\ \E i \in DOMAIN sess[1].tasks :
          /\ sess[1].tasks[i].st = "settled"
          /\ sess[1].tasks[i].apiId \in DOMAIN API_SITES
          /\ sess[1].tasks[i].ctrl = "none"
          /\ sess[1].tasks[i].req = NoReq

\* the tasks of session j that wait for the upstream call u
JoinedTasks(j, u) ==
    {i \in DOMAIN sess[j].tasks :
        sess[j].tasks[i].st = "waiting" /\ sess[j].tasks[i].req = u.id}

\* the external signal of session s fires in the step
Fires(s) == sess[s].signal = "live" /\ sess'[s].signal = "aborted"

\* session j shares the upstream call u, which a task of another session
\* created, and only the signal of session s fires in the step
SharedAndOnlyFires(u, j, s) ==
    /\ u.id[1] # 0 /\ u.id[1] # j
    /\ JoinedTasks(j, u) # {}
    /\ Fires(s)
    /\ \A t \in Sessions \ {s} : sess'[t].signal = sess[t].signal

\* the joining session j gets a failed result of the call u in the step: the
\* call is over, the tasks of j that waited for it are settled with code 400
\* and nothing is handed to the callback of j
JoinerFails(u, j) ==
    /\ \A v \in upstream' : v.id # u.id
    /\ \A i \in JoinedTasks(j, u) :
          /\ sess'[j].tasks[i].st = "settled"
          /\ sess'[j].tasks[i].obs.code = 400
    /\ sess'[j].delivered = sess[j].delivered

\* C23: cross-session coupling through dedup.  When a session j waits for an
\* upstream call created by a task of another session, the abort of the
\* creating session ends the call and gives j a failed result although the
\* signal of j has not fired, and the abort of j alone leaves the call as it
\* is.
C23_CrossSessionCoupling ==
    [][\A u \in upstream : \A j \in Sessions :
         /\ SharedAndOnlyFires(u, j, u.id[1]) => JoinerFails(u, j)
         /\ SharedAndOnlyFires(u, j, j) => u \in upstream']_vars

\* the part of C23 that the code keeps: the coupling exists while the call
\* waits for the response; once the response has arrived the abort of the
\* creating session leaves the call as it is, as the abort of the joining
\* session does in every phase
CoupledWhileFetching ==
    [][\A u \in upstream : \A j \in Sessions :
         /\ (SharedAndOnlyFires(u, j, u.id[1]) /\ u.phase = "fetching")
            => JoinerFails(u, j)
         /\ (SharedAndOnlyFires(u, j, u.id[1]) /\ u.phase = "reading")
            => u \in upstream'
         /\ SharedAndOnlyFires(u, j, j) => u \in upstream']_vars

\* the creating session was aborted while the joining one, whose signal has
\* not fired, waited for the call, and the joining session got a failed
\* result for the source
CoupledWitness ==
    \E c, j \in Sessions :
        /\ c # j
        /\ sess[c].signal = "aborted" /\ sess[j].signal = "live"
        /\ sess[j].status = "resolved" /\ sess[j].delivered = <<>>
        /\ \E i \in DOMAIN sess[j].tasks :
              /\ sess[j].tasks[i].req # NoReq
              /\ sess[j].tasks[i].req[1] = c
              /\ sess[j].tasks[i].obs.code = 400
        /\ fetchCount = 1

\* the tasks of session s for a custom endpoint whose search returns a list
\* in the step
CustomListsInStep(s) ==
    {i \in DOMAIN sess[s].tasks :
        /\ startsWith(sess[s].tasks[i].apiId, "custom_")
        /\ sess[s].tasks[i].obs.code = 0
        /\ sess'[s].tasks[i].obs.code = 200}

\* the items handed to the callback of session s in the step
FreshItems(s) ==
    Flatten(SubSeq(sess'[s].delivered, Len(sess[s].delivered) + 1,
                   Len(sess'[s].delivered)))

\* C24: custom endpoints share one dedup identity.  Every item of the list
\* of any custom endpoint is tagged source_code 'custom' (and api_url with
\* the url of its endpoint), so its key in the seen set is 'custom_' +
\* vod_id whatever the endpoint.  When the list of a custom endpoint arrives
\* in a session that is not aborted, no item whose vod_id was already
\* delivered under 'custom' is handed to the callback; the items handed over
\* are those with an unseen vod_id, once each; and the endpoint adds one to
\* the top-K count if its list has an item with an unseen vod_id and nothing
\* otherwise.
C24_CustomSharedIdentity ==
    /\ [](\A s \in Sessions : \A i \in DOMAIN sess[s].tasks :
            startsWith(sess[s].tasks[i].apiId, "custom_")
            => \A n \in DOMAIN sess[s].tasks[i].obs.list :
                  LET item == sess[s].tasks[i].obs.list[n]
                  IN /\ item.source_code = "custom"
                     /\ ItemKey(item) = "custom_" \o item.vod_id
                     /\ \E k \in DOMAIN sess[s].customAPIs :
                           /\ k = CustomIndex(sess[s].tasks[i].apiId) + 1
                           /\ item.api_url = sess[s].customAPIs[k].url)
    /\ [][\A s \in Sessions : \A i \in CustomListsInStep(s) :
            ~sess[s].aborted
            => LET list == sess'[s].tasks[i].obs.list
                   unseen == {list[n].vod_id : n \in
                                {m \in DOMAIN list :
                                    ("custom_" \o list[m].vod_id) \notin sess[s].seen}}
                   fresh == FreshItems(s)
               IN /\ \A n \in DOMAIN fresh :
                        /\ fresh[n].source_code = "custom"
                        /\ ("custom_" \o fresh[n].vod_id) \notin sess[s].seen
                  /\ {fresh[n].vod_id : n \in DOMAIN fresh} = unseen
                  /\ Len(fresh) = Cardinality(unseen)
                  /\ sess'[s].reachedTopK
                     = sess[s].reachedTopK + (IF unseen # {} THEN 1 ELSE 0)
                  /\ unseen = {} => sess'[s].delivered = sess[s].delivered]_vars

\* two different custom endpoints have each returned an item with vod_id 1
\* through calls of their own: the item of the first was delivered, the item
\* of the second was suppressed, and one source counts toward top-K
C24_Witness ==
    /\ ~sess[1].aborted
    /\ sess[1].reachedTopK = 1
    /\ Len(Flatten(sess[1].delivered)) = 1
    /\ \E i, j \in DOMAIN sess[1].tasks :
          /\ startsWith(sess[1].tasks[i].apiId, "custom_")
          /\ startsWith(sess[1].tasks[j].apiId, "custom_")
          /\ sess[1].tasks[i].req # sess[1].tasks[j].req
          /\ sess[1].tasks[i].obs.code = 200 /\ sess[1].tasks[j].obs.code = 200
          /\ Len(sess[1].tasks[i].obs.list) = 1 /\ Len(sess[1].tasks[j].obs.list) = 1
          /\ sess[1].tasks[i].obs.list[1].vod_id = sess[1].tasks[j].obs.list[1].vod_id
          /\ sess[1].tasks[i].obs.list[1].api_url # sess[1].tasks[j].obs.list[1].api_url
          /\ sess[1].delivered[1] = sess[1].tasks[i].obs.list

====
